---------------------------- MODULE Spec2Model ----------------------------
(***************************************************************************)
(* A model of src/src/proxy.rs of ztunnel: the bidirectional tunnel relay  *)
(* copy_hbone, the orchestrator Proxy (new / run / addresses), the        *)
(* trace-context value TraceParent (Debug rendering and TryFrom<&str>),    *)
(* the socket helpers maybe_set_transparent and freebind_connect, and the  *)
(* source resolver get_original_src_from_fwded.                            *)
(*                                                                         *)
(* The parts do not share state.  Each has its own specification           *)
(* (SpecRelay, SpecProxy, SpecTrace, SpecSocket, SpecFwd) in which the     *)
(* variables of the other parts stay at their idle values.                 *)
(***************************************************************************)
EXTENDS Integers, Sequences, FiniteSets, TLC

VARIABLES
    \* ---- copy_hbone -------------------------------------------------
    total,      \* [Dirs -> Nat]: bytes the source peer of a direction sends in all
    closes,     \* [Dirs -> BOOLEAN]: whether that peer ever closes its stream
    src,        \* [Dirs -> Nat]: bytes of the source stream not yet read
    rbuf,       \* [Dirs -> Nat]: bytes read (BufReader / copy buffer), not yet written
    wbuf,       \* [Dirs -> Nat]: bytes held by the BufWriter, not yet on the sink
    sink,       \* [Dirs -> Nat]: bytes written to the destination half
    amt,        \* [Dirs -> Nat]: the running count of tokio::io::copy
    reof,       \* [Dirs -> BOOLEAN]: the read half has returned end-of-stream
    wclosed,    \* [Dirs -> BOOLEAN]: the write half has been shut down
    pc,         \* [Dirs -> position of the direction's future]
    failedOp,   \* [Dirs -> the I/O operation that failed in the direction, or "none"]
    sent,       \* the local `sent` of copy_hbone
    received,   \* the local `received` of copy_hbone
    result,     \* what copy_hbone has returned, or [tag |-> "pending"]
    \* ---- Proxy ------------------------------------------------------
    pi,         \* the local `pi` of Proxy::new: [hbone_port |-> port]
    role,       \* [Roles -> the listener role value: state, inputs, drain, port]
    listening,  \* the roles whose listening socket is open
    bindOrder,  \* the roles in the order their listeners were bound
    newPc,      \* the role Proxy::new constructs next, or "end"
    newResult,  \* what Proxy::new has returned, or [tag |-> "pending"]
    runPc,      \* Proxy::run: "idle", "joining" or "returned"
    drainFired, \* the shared drain signal has fired
    conns,      \* connections admitted by the listener roles so far
    \* ---- TraceParent ------------------------------------------------
    tp,         \* the TraceParent value at hand
    input,      \* the &str handed to try_from, as its sequence of bytes
    origin,     \* where input comes from: "none", "header" or "raw"
    edits,      \* how many times input was altered on the way
    parsed,     \* what try_from has returned, or [tag |-> "none"]
    \* ---- sockets ----------------------------------------------------
    enable,     \* pi.cfg.enable_original_source: "Some(true)", "Some(false)", "None"
    mstResult,  \* what maybe_set_transparent has returned, or [tag |-> "pending"]
    local,      \* freebind_connect's `local`: [tag |-> "None"] or [tag |-> "Some", ip |-> ip]
    addr,       \* freebind_connect's `addr`: [ip |-> ip, port |-> port]
    fbPc,       \* freebind_connect: "start", "flags", "bind", "connect" or "done"
    fbLog,      \* the socket calls freebind_connect has made, in order
    fbResult,   \* what freebind_connect has returned, or [tag |-> "pending"]
    \* ---- get_original_src_from_fwded --------------------------------
    fwded,      \* the Forwarded header of the request `req`
    fwdResult   \* what get_original_src_from_fwded has returned, or [tag |-> "pending"]

relayVars == <<total, closes, src, rbuf, wbuf, sink, amt, reof, wclosed, pc,
               failedOp, sent, received, result>>

proxyVars == <<pi, role, listening, bindOrder, newPc, newResult, runPc,
               drainFired, conns>>

traceVars == <<tp, input, origin, edits, parsed>>

socketVars == <<enable, mstResult, local, addr, fbPc, fbLog, fbResult>>

fwdVars == <<fwded, fwdResult>>

vars == <<relayVars, proxyVars, traceVars, socketVars, fwdVars>>

\* What an action of one part leaves alone: the other parts.
OutsideRelay == UNCHANGED <<proxyVars, traceVars, socketVars, fwdVars>>

OutsideProxy == UNCHANGED <<relayVars, traceVars, socketVars, fwdVars>>

OutsideTrace == UNCHANGED <<relayVars, proxyVars, socketVars, fwdVars>>

OutsideSocket == UNCHANGED <<relayVars, proxyVars, traceVars, fwdVars>>

OutsideFwd == UNCHANGED <<relayVars, proxyVars, traceVars, socketVars>>

----------------------------------------------------------------------------
(* Bounds of the model.                                                    *)

\* Stream lengths 0..MaxLen are explored byte by byte.
MaxLen == 2

\* Each listener may be bound to one of MaxPort ports.
MaxPort == 2

\* The listener roles admit at most MaxConns connections in all.
MaxConns == 2

\* A header value is altered at most MaxEdits times before it is parsed.
MaxEdits == 1

\* The hosts an IP address may name are 1..MaxHost.
MaxHost == 2

\* A Forwarded header has at most MaxEntries pairs.
MaxEntries == 2

----------------------------------------------------------------------------
(* copy_hbone                                                              *)

Min(a, b) == IF a <= b THEN a ELSE b

\* const HBONE_BUFFER_SIZE: usize = 16_384 - 64;
HBONE_BUFFER_SIZE == 16384 - 64

\* The two futures joined by try_join!, named as in the source.
\* client_to_server copies tunnel (ri) -> TCP (wo);
\* server_to_client copies TCP (ro) -> tunnel (wi).
Dirs == {"client_to_server", "server_to_client"}

Other(d) == IF d = "client_to_server" THEN "server_to_client" ELSE "client_to_server"

\* The lengths of the streams a peer may send: the short ones, and one that
\* does not fit the buffers of BufReader / BufWriter.
Lengths == (0..MaxLen) \cup {HBONE_BUFFER_SIZE + MaxLen}

\* What one read or one write may transfer out of n pending bytes, at most cap
\* at a time: everything that fits, or a few bytes of a short remainder or of a
\* stream longer than the buffer.
Chunks(n, cap) ==
    {Min(n, cap)} \cup {k \in 1..MaxLen : k <= n /\ (n <= MaxLen \/ n > cap)}

Pending == [tag |-> "pending"]

\* Err(e) of the io::Error raised by operation op in direction d.
ErrResult(d, op) == [tag |-> "Err", dir |-> d, op |-> op]

\* .map(|_| (sent, received)) with the values the locals hold at that time.
OkResultSwapped(s, r) == [tag |-> "Ok", fst |-> r, snd |-> s]

OkResult(s, r) == [tag |-> "Ok", fst |-> s, snd |-> r]

RelayInit ==
    /\ total \in [Dirs -> Lengths]
    /\ closes \in [Dirs -> BOOLEAN]
    /\ src = total
    /\ rbuf = [d \in Dirs |-> 0]
    /\ wbuf = [d \in Dirs |-> 0]
    /\ sink = [d \in Dirs |-> 0]
    /\ amt = [d \in Dirs |-> 0]
    /\ reof = [d \in Dirs |-> FALSE]
    /\ wclosed = [d \in Dirs |-> FALSE]
    /\ pc = [d \in Dirs |-> "copy"]
    /\ failedOp = [d \in Dirs |-> "none"]
    /\ sent = 0
    /\ received = 0
    /\ result = Pending

\* copy: the buffer is empty and the reader yields k > 0 bytes.
Read(d) ==
    /\ OutsideRelay
    /\ result = Pending /\ pc[d] = "copy" /\ rbuf[d] = 0 /\ src[d] > 0
    /\ \E k \in Chunks(src[d], HBONE_BUFFER_SIZE) :
          /\ src' = [src EXCEPT ![d] = @ - k]
          /\ rbuf' = [rbuf EXCEPT ![d] = k]
    /\ UNCHANGED <<total, closes, wbuf, sink, amt, reof, wclosed, pc, failedOp,
                   sent, received, result>>

\* copy: the reader yields 0 bytes: read_done.  Everything read has been
\* handed to the writer already (the buffer is empty when copy reads).
ReadEof(d) ==
    /\ OutsideRelay
    /\ result = Pending /\ pc[d] = "copy" /\ rbuf[d] = 0
    /\ src[d] = 0 /\ closes[d]
    /\ reof' = [reof EXCEPT ![d] = TRUE]
    /\ pc' = [pc EXCEPT ![d] = "flush"]
    /\ UNCHANGED <<total, closes, src, rbuf, wbuf, sink, amt, wclosed, failedOp,
                   sent, received, result>>

\* copy: poll_write of k buffered bytes on the BufWriter: it first flushes its
\* own buffer when the data does not fit, then writes data of at least its
\* capacity straight to the inner writer and buffers anything shorter.
Write(d) ==
    /\ OutsideRelay
    /\ result = Pending /\ pc[d] = "copy" /\ rbuf[d] > 0
    /\ \E k \in Chunks(rbuf[d], rbuf[d]) :
          LET flushFirst == wbuf[d] + k > HBONE_BUFFER_SIZE
              held == IF flushFirst THEN 0 ELSE wbuf[d]
              out == IF flushFirst THEN wbuf[d] ELSE 0
          IN  /\ rbuf' = [rbuf EXCEPT ![d] = @ - k]
              /\ amt' = [amt EXCEPT ![d] = @ + k]
              /\ IF k >= HBONE_BUFFER_SIZE
                    THEN /\ wbuf' = [wbuf EXCEPT ![d] = held]
                         /\ sink' = [sink EXCEPT ![d] = @ + out + k]
                    ELSE /\ wbuf' = [wbuf EXCEPT ![d] = held + k]
                         /\ sink' = [sink EXCEPT ![d] = @ + out]
    /\ UNCHANGED <<total, closes, src, reof, wclosed, pc, failedOp,
                   sent, received, result>>

\* copy: the reader is pending and written data awaits a flush: flush it.
IdleFlush(d) ==
    /\ OutsideRelay
    /\ result = Pending /\ pc[d] = "copy" /\ rbuf[d] = 0 /\ wbuf[d] > 0
    /\ sink' = [sink EXCEPT ![d] = @ + wbuf[d]]
    /\ wbuf' = [wbuf EXCEPT ![d] = 0]
    /\ UNCHANGED <<total, closes, src, rbuf, amt, reof, wclosed, pc, failedOp,
                   sent, received, result>>

\* The local that `res?` is assigned to in a direction:
\* received = res? in client_to_server, sent = res? in server_to_client.
CounterSwapped(d) == IF d = "client_to_server" THEN "sent" ELSE "received"

Counter(d) == IF d = "client_to_server" THEN "received" ELSE "sent"

\* copy after read_done: flush the writer and return Ok(amt); the block then
\* assigns its counter and goes on to the shutdown.
FinishCopy(d) ==
    /\ OutsideRelay
    /\ result = Pending /\ pc[d] = "flush"
    /\ sink' = [sink EXCEPT ![d] = @ + wbuf[d]]
    /\ wbuf' = [wbuf EXCEPT ![d] = 0]
    /\ IF Counter(d) = "received"
          THEN received' = amt[d] /\ UNCHANGED sent
          ELSE sent' = amt[d] /\ UNCHANGED received
    /\ pc' = [pc EXCEPT ![d] = "shutdown"]
    /\ UNCHANGED <<total, closes, src, rbuf, amt, reof, wclosed, failedOp, result>>

\* The direction ends without shutting its write half down.
ShutdownOmitted(d) ==
    /\ OutsideRelay
    /\ result = Pending /\ pc[d] = "shutdown"
    /\ pc' = [pc EXCEPT ![d] = "done"]
    /\ result' = IF pc[Other(d)] = "done" THEN OkResult(sent, received) ELSE Pending
    /\ UNCHANGED <<total, closes, src, rbuf, wbuf, sink, amt, reof, wclosed,
                   failedOp, sent, received>>

\* A select-like join: the first block to complete decides the result.
ShutdownReturns(d) ==
    /\ OutsideRelay
    /\ result = Pending /\ pc[d] = "shutdown"
    /\ sink' = [sink EXCEPT ![d] = @ + wbuf[d]]
    /\ wbuf' = [wbuf EXCEPT ![d] = 0]
    /\ wclosed' = [wclosed EXCEPT ![d] = TRUE]
    /\ pc' = [pc EXCEPT ![d] = "done"]
    /\ result' = OkResult(sent, received)
    /\ UNCHANGED <<total, closes, src, rbuf, amt, reof, failedOp, sent, received>>

\* wo.shutdown().await / wi.shutdown().await: the BufWriter flushes what it
\* holds and shuts the inner write half down; the block is then complete, and
\* try_join! returns the pair once both blocks are.
Shutdown(d) ==
    /\ OutsideRelay
    /\ result = Pending /\ pc[d] = "shutdown"
    /\ sink' = [sink EXCEPT ![d] = @ + wbuf[d]]
    /\ wbuf' = [wbuf EXCEPT ![d] = 0]
    /\ wclosed' = [wclosed EXCEPT ![d] = TRUE]
    /\ pc' = [pc EXCEPT ![d] = "done"]
    /\ result' = IF pc[Other(d)] = "done" THEN OkResult(sent, received) ELSE Pending
    /\ UNCHANGED <<total, closes, src, rbuf, amt, reof, failedOp, sent, received>>

\* The I/O operation a direction is at.
CurrentOp(d) ==
    CASE pc[d] = "copy" /\ rbuf[d] > 0 -> "write"
      [] pc[d] = "copy" /\ rbuf[d] = 0 -> "read"
      [] pc[d] = "flush" -> "flush"
      [] pc[d] = "shutdown" -> "shutdown"

\* The error of a direction is dropped and the direction counts as complete.
IoFailSwallowed(d) ==
    /\ OutsideRelay
    /\ result = Pending /\ pc[d] \in {"copy", "flush", "shutdown"}
    /\ failedOp' = [failedOp EXCEPT ![d] = CurrentOp(d)]
    /\ pc' = [pc EXCEPT ![d] = "done"]
    /\ result' = IF pc[Other(d)] = "done" THEN OkResult(sent, received) ELSE Pending
    /\ UNCHANGED <<total, closes, src, rbuf, wbuf, sink, amt, reof, wclosed,
                   sent, received>>

\* A join that lets the other block run on after a failure and reports the
\* error once both blocks have ended.
IoFailDeferred(d) ==
    /\ OutsideRelay
    /\ result = Pending /\ pc[d] \in {"copy", "flush", "shutdown"}
    /\ failedOp' = [failedOp EXCEPT ![d] = CurrentOp(d)]
    /\ pc' = [pc EXCEPT ![d] = "failed"]
    /\ result' = IF pc[Other(d)] \in {"done", "failed"}
                    THEN ErrResult(d, CurrentOp(d))
                    ELSE Pending
    /\ UNCHANGED <<total, closes, src, rbuf, wbuf, sink, amt, reof, wclosed,
                   sent, received>>

\* The I/O operation a direction is at fails: `?` (or the shutdown's own
\* result) ends the block with Err, try_join! returns that Err at once and
\* drops the other block where it stands.
IoFail(d) ==
    /\ OutsideRelay
    /\ result = Pending /\ pc[d] \in {"copy", "flush", "shutdown"}
    /\ failedOp' = [failedOp EXCEPT ![d] = CurrentOp(d)]
    /\ pc' = [pc EXCEPT ![d] = "failed",
                        ![Other(d)] = IF @ = "done" THEN "done" ELSE "dropped"]
    /\ result' = ErrResult(d, CurrentOp(d))
    /\ UNCHANGED <<total, closes, src, rbuf, wbuf, sink, amt, reof, wclosed,
                   sent, received>>

RelayNext ==
    \E d \in Dirs :
        \/ Read(d)
        \/ ReadEof(d)
        \/ Write(d)
        \/ IdleFlush(d)
        \/ FinishCopy(d)
        \/ Shutdown(d)
        \/ IoFail(d)

\* The relay before copy_hbone is called (the other specifications).
RelayIdle ==
    /\ total = [d \in Dirs |-> 0]
    /\ closes = [d \in Dirs |-> FALSE]
    /\ src = total
    /\ rbuf = [d \in Dirs |-> 0]
    /\ wbuf = [d \in Dirs |-> 0]
    /\ sink = [d \in Dirs |-> 0]
    /\ amt = [d \in Dirs |-> 0]
    /\ reof = [d \in Dirs |-> FALSE]
    /\ wclosed = [d \in Dirs |-> FALSE]
    /\ pc = [d \in Dirs |-> "copy"]
    /\ failedOp = [d \in Dirs |-> "none"]
    /\ sent = 0
    /\ received = 0
    /\ result = Pending

----------------------------------------------------------------------------
(* Proxy                                                                   *)

\* The fields of struct Proxy, in the order Proxy::new constructs them.
Order == <<"inbound", "inbound_passthrough", "outbound", "socks5">>

Roles == {Order[i] : i \in 1..Len(Order)}

Index(r) == CHOOSE i \in 1..Len(Order) : Order[i] = r

\* What follows role r in Proxy::new.
After(r) == IF Index(r) = Len(Order) THEN "end" ELSE Order[Index(r) + 1]

\* The ports the listener of role r may end up bound to (each role listens on
\* an address of its own).
Ports(r) == {(Index(r) - 1) * MaxPort + k : k \in 1..MaxPort}

\* A role that has not been constructed.
Unbuilt == [state |-> "unbuilt", inputs |-> [hbone_port |-> 0], drain |-> FALSE,
            port |-> 0]

\* <Role>::new(inputs, drain): the constructor binds the role's listener and
\* keeps the inputs (and the drain watch, when it is given one); a failed bind
\* is Error::Bind.  It starts nothing.
RoleNew(r, inputs, hasDrain, p) ==
    IF p \in Ports(r)
       THEN [tag |-> "Ok",
             val |-> [state |-> "built", inputs |-> inputs, drain |-> hasDrain,
                      port |-> p]]
       ELSE [tag |-> "Err", error |-> "Bind", at |-> r]

\* role.address(): the bound address of the role's listener.
Address(r) == role[r].port

\* The error is returned while the roles built so far stay alive.
ConstructErrLeak(r, e) ==
    /\ newResult' = e
    /\ newPc' = "end"
    /\ UNCHANGED <<pi, role, listening, bindOrder>>

\* `?` on a constructor's Err: Proxy::new returns the error; the roles built
\* so far are locals of the call and are dropped, which closes their listeners.
ConstructErr(r, e) ==
    /\ newResult' = e
    /\ newPc' = "end"
    /\ role' = [q \in Roles |->
                  IF role[q].state = "built"
                     THEN [role[q] EXCEPT !.state = "dropped"] ELSE role[q]]
    /\ listening' = {}
    /\ UNCHANGED <<pi, bindOrder>>

\* A constructor's Ok: the role is kept in its local.
ConstructOk(r, v) ==
    /\ role' = [role EXCEPT ![r] = v]
    /\ listening' = listening \cup {r}
    /\ bindOrder' = Append(bindOrder, r)
    /\ newPc' = After(r)

\* The bind of a listener fails (0) or binds one of the role's ports.
BindOutcomes(r) == {0} \cup Ports(r)

\* Inbound::new without the write-back of the bound port.
NewInboundNoWriteBack ==
    /\ OutsideProxy
    /\ newPc = "inbound" /\ newResult = Pending
    /\ \E p \in BindOutcomes("inbound") :
          LET res == RoleNew("inbound", pi, TRUE, p)
          IN  IF res.tag = "Err"
                 THEN ConstructErr("inbound", res)
                 ELSE /\ ConstructOk("inbound", res.val)
                      /\ UNCHANGED <<pi, newResult>>
    /\ UNCHANGED <<runPc, drainFired, conns>>

\* let inbound = Inbound::new(pi.clone(), drain.clone()).await?;
\* pi.hbone_port = inbound.address().port();
NewInbound ==
    /\ OutsideProxy
    /\ newPc = "inbound" /\ newResult = Pending
    /\ \E p \in BindOutcomes("inbound") :
          LET res == RoleNew("inbound", pi, TRUE, p)
          IN  IF res.tag = "Err"
                 THEN ConstructErr("inbound", res)
                 ELSE /\ ConstructOk("inbound", res.val)
                      /\ pi' = [pi EXCEPT !.hbone_port = res.val.port]
                      /\ UNCHANGED newResult
    /\ UNCHANGED <<runPc, drainFired, conns>>

\* A later constructor after which the port of the new role is written to pi.
NewRoleWritesPort(r, hasDrain) ==
    /\ OutsideProxy
    /\ newPc = r /\ newResult = Pending
    /\ \E p \in BindOutcomes(r) :
          LET res == RoleNew(r, pi, hasDrain, p)
          IN  IF res.tag = "Err"
                 THEN ConstructErr(r, res)
                 ELSE /\ ConstructOk(r, res.val)
                      /\ pi' = [pi EXCEPT !.hbone_port = res.val.port]
                      /\ UNCHANGED newResult
    /\ UNCHANGED <<runPc, drainFired, conns>>

\* let <role> = <Role>::new(pi.clone() [, drain]).await?;
NewRole(r, hasDrain) ==
    /\ OutsideProxy
    /\ newPc = r /\ newResult = Pending
    /\ \E p \in BindOutcomes(r) :
          LET res == RoleNew(r, pi, hasDrain, p)
          IN  IF res.tag = "Err"
                 THEN ConstructErr(r, res)
                 ELSE /\ ConstructOk(r, res.val)
                      /\ UNCHANGED newResult
    /\ UNCHANGED <<pi, runPc, drainFired, conns>>

\* let inbound_passthrough = InboundPassthrough::new(pi.clone()).await?;
NewInboundPassthrough == NewRole("inbound_passthrough", FALSE)

\* let outbound = Outbound::new(pi.clone(), drain.clone()).await?;
NewOutbound == NewRole("outbound", TRUE)

\* let socks5 = Socks5::new(pi.clone(), drain).await?;
NewSocks5 == NewRole("socks5", TRUE)

\* Ok(Proxy { inbound, inbound_passthrough, outbound, socks5 })
NewOk ==
    /\ OutsideProxy
    /\ newPc = "end" /\ newResult = Pending
    /\ newResult' = [tag |-> "Ok"]
    /\ UNCHANGED <<pi, role, listening, bindOrder, newPc, runPc, drainFired, conns>>

\* Proxy::addresses
Addresses ==
    [outbound |-> Address("outbound"), inbound |-> Address("inbound"),
     socks5 |-> Address("socks5")]

\* Proxy::run up to the await: one spawned task per role.
RunSpawn ==
    /\ OutsideProxy
    /\ newResult.tag = "Ok" /\ runPc = "idle"
    /\ role' = [r \in Roles |-> [role[r] EXCEPT !.state = "running"]]
    /\ runPc' = "joining"
    /\ UNCHANGED <<pi, listening, bindOrder, newPc, newResult, drainFired, conns>>

Finished(r) == role[r].state \in {"exited", "errored", "panicked"}

\* A join that gives up at the first task that failed.
RunJoinFirstFailure ==
    /\ OutsideProxy
    /\ runPc = "joining"
    /\ \/ \A r \in Roles : Finished(r)
       \/ \E r \in Roles : role[r].state \in {"errored", "panicked"}
    /\ runPc' = "returned"
    /\ UNCHANGED <<pi, role, listening, bindOrder, newPc, newResult, drainFired, conns>>

\* futures::future::join_all(tasks).await; the results are discarded.
RunJoin ==
    /\ OutsideProxy
    /\ runPc = "joining"
    /\ \A r \in Roles : Finished(r)
    /\ runPc' = "returned"
    /\ UNCHANGED <<pi, role, listening, bindOrder, newPc, newResult, drainFired, conns>>

\* The drain signal fires (the caller's side of the Watch).
DrainSignal ==
    /\ OutsideProxy
    /\ ~drainFired
    /\ drainFired' = TRUE
    /\ UNCHANGED <<pi, role, listening, bindOrder, newPc, newResult, runPc, conns>>

\* A running role admits a connection at its accept loop.
RoleAccept(r) ==
    /\ OutsideProxy
    /\ role[r].state = "running" /\ conns < MaxConns
    /\ conns' = conns + 1
    /\ UNCHANGED <<pi, role, listening, bindOrder, newPc, newResult, runPc, drainFired>>

\* A running role that holds a drain watch sees the signal and leaves its loop.
RoleDrained(r) ==
    /\ OutsideProxy
    /\ role[r].state = "running" /\ role[r].drain /\ drainFired
    /\ role' = [role EXCEPT ![r].state = "exited"]
    /\ listening' = listening \ {r}
    /\ UNCHANGED <<pi, bindOrder, newPc, newResult, runPc, drainFired, conns>>

\* A role's task ends in an error or a panic.
RoleFails(r) ==
    /\ OutsideProxy
    /\ role[r].state = "running"
    /\ \E how \in {"errored", "panicked"} :
          role' = [role EXCEPT ![r].state = how]
    /\ listening' = listening \ {r}
    /\ UNCHANGED <<pi, bindOrder, newPc, newResult, runPc, drainFired, conns>>

ProxyInit ==
    /\ pi = [hbone_port |-> 0]
    /\ role = [r \in Roles |-> Unbuilt]
    /\ listening = {}
    /\ bindOrder = <<>>
    /\ newPc = Order[1]
    /\ newResult = Pending
    /\ runPc = "idle"
    /\ drainFired = FALSE
    /\ conns = 0

ProxyNext ==
    \/ NewInbound
    \/ NewInboundPassthrough
    \/ NewOutbound
    \/ NewSocks5
    \/ NewOk
    \/ RunSpawn
    \/ RunJoin
    \/ DrainSignal
    \/ \E r \in Roles : RoleAccept(r)
    \/ \E r \in Roles : RoleDrained(r)
    \/ \E r \in Roles : RoleFails(r)

----------------------------------------------------------------------------
(* TraceParent                                                             *)

\* A string is the sequence of its bytes, each a one-character string.
\* An unsigned integer is the big-endian sequence of its limbs: a u8 is one
\* limb of 8 bits, a u64 four and a u128 eight limbs of 16 bits.
U8 == [n |-> 1, bits |-> 8]

U64 == [n |-> 4, bits |-> 16]

U128 == [n |-> 8, bits |-> 16]

\* 2^bits of a limb.
Base(T) == IF T.bits = 8 THEN 256 ELSE 65536

Zero(T) == <<>> \o [i \in 1..T.n |-> 0]

MaxValue(T) == <<>> \o [i \in 1..T.n |-> Base(T) - 1]

\* The radix of the rendering and of from_str_radix.
Radix == 16

RECURSIVE Pow(_, _)
Pow(b, e) == IF e = 0 THEN 1 ELSE b * Pow(b, e - 1)

HexDigits == <<"0", "1", "2", "3", "4", "5", "6", "7", "8", "9",
               "a", "b", "c", "d", "e", "f">>

UpperDigits == <<"0", "1", "2", "3", "4", "5", "6", "7", "8", "9",
                 "A", "B", "C", "D", "E", "F">>

\* char::to_digit(16): the value of a hex digit of either case, or -1.
ToDigit(c) ==
    IF \E i \in 1..Radix : HexDigits[i] = c
       THEN (CHOOSE i \in 1..Radix : HexDigits[i] = c) - 1
       ELSE IF \E i \in 1..Radix : UpperDigits[i] = c
               THEN (CHOOSE i \in 1..Radix : UpperDigits[i] = c) - 1
               ELSE -1

\* The w low hex digits of x, most significant first.
FixedHex(x, w) ==
    <<>> \o [i \in 1..w |-> HexDigits[((x \div Pow(Radix, w - i)) % Radix) + 1]]

RECURSIVE Flatten(_)
Flatten(ss) == IF ss = <<>> THEN <<>> ELSE Head(ss) \o Flatten(Tail(ss))

RECURSIVE StripZeros(_)
StripZeros(s) == IF Len(s) > 1 /\ s[1] = "0" THEN StripZeros(Tail(s)) ELSE s

\* fmt::LowerHex of an unsigned integer: its digits without leading zeros.
LowerHex(v, T) ==
    StripZeros(Flatten([i \in 1..T.n |-> FixedHex(v[i], T.bits \div 4)]))

\* A rendering that ignores the width.
NoPad(s, w) == s

\* The `0<w>` of a format spec: zeros in front up to the width w.
PadZero(s, w) ==
    IF Len(s) >= w THEN s ELSE [i \in 1..(w - Len(s)) |-> "0"] \o s

\* impl fmt::Debug for TraceParent: "{:02x}-{:032x}-{:016x}-{:02x}"
DebugFmt(t) ==
    PadZero(LowerHex(t.version, U8), 2) \o <<"-">>
        \o PadZero(LowerHex(t.trace_id, U128), 32) \o <<"-">>
        \o PadZero(LowerHex(t.parent_id, U64), 16) \o <<"-">>
        \o PadZero(LowerHex(t.flags, U8), 2)

\* TraceParent::header: the Debug rendering as a header value.
header(t) == DebugFmt(t)

\* checked_mul(16) followed by checked_add(d) fails.
Overflows(v, T) == v[1] \div (Base(T) \div Radix) # 0

\* v * 16 + d, limb by limb.
MulAdd(v, d, T) ==
    <<>> \o [i \in 1..T.n |->
                ((v[i] * Radix) % Base(T))
                    + (IF i < T.n THEN v[i + 1] \div (Base(T) \div Radix) ELSE d)]

RECURSIVE Accumulate(_, _, _)
Accumulate(ds, acc, T) ==
    IF ds = <<>> THEN [tag |-> "Ok", val |-> acc]
    ELSE LET d == ToDigit(Head(ds))
         IN  IF d < 0 THEN [tag |-> "Err", kind |-> "InvalidDigit"]
             ELSE IF Overflows(acc, T) THEN [tag |-> "Err", kind |-> "PosOverflow"]
             ELSE Accumulate(Tail(ds), MulAdd(acc, d, T), T)

\* <unsigned>::from_str_radix(s, 16)
FromStrRadix(s, T) ==
    IF s = <<>> THEN [tag |-> "Err", kind |-> "Empty"]
    ELSE IF Len(s) = 1 /\ s[1] \in {"+", "-"} THEN [tag |-> "Err", kind |-> "InvalidDigit"]
    ELSE Accumulate(IF s[1] = "+" THEN Tail(s) ELSE s, Zero(T), T)

\* value.split('-').collect(): the pieces between the dashes.
RECURSIVE Split(_)
Split(s) ==
    IF \A i \in 1..Len(s) : s[i] # "-" THEN <<s>>
    ELSE LET k == CHOOSE i \in 1..Len(s) :
                      s[i] = "-" /\ \A j \in 1..(i - 1) : s[j] # "-"
         IN  <<SubSeq(s, 1, k - 1)>> \o Split(SubSeq(s, k + 1, Len(s)))

\* The length a traceparent must have.
TRACEPARENT_LEN == 55

\* A length check that lets shorter values through.
LengthAtMost(value) == Len(value) <= TRACEPARENT_LEN

\* The negation of `value.len() != 55`.
LengthOk(value) == Len(value) = TRACEPARENT_LEN

\* The fields of TraceParent in the order try_from decodes them.
Fields == <<"version", "trace_id", "parent_id", "flags">>

FieldType == <<U8, U128, U64, U8>>

\* impl TryFrom<&str> for TraceParent: the result, with the steps taken.
\* segs[i] of a missing piece panics (index out of bounds); `?` returns the
\* first decoding error.
try_from(value) ==
    IF ~LengthOk(value)
       THEN [tag |-> "Err", kind |-> "length", steps |-> <<"len">>]
       ELSE LET segs == Split(value)
                Decode(i) == IF i > Len(segs) THEN [tag |-> "Panic", kind |-> "index"]
                             ELSE FromStrRadix(segs[i], FieldType[i])
                Bad == {i \in 1..Len(Fields) : Decode(i).tag # "Ok"}
                Steps(n) == <<"len", "split">> \o SubSeq(Fields, 1, n)
            IN  IF Bad = {}
                   THEN [tag |-> "Ok",
                         val |-> [version |-> Decode(1).val, trace_id |-> Decode(2).val,
                                  parent_id |-> Decode(3).val, flags |-> Decode(4).val],
                         steps |-> Steps(Len(Fields))]
                   ELSE LET i == CHOOSE i \in Bad : \A j \in Bad : i <= j
                        IN  [tag |-> Decode(i).tag, kind |-> Decode(i).kind,
                             steps |-> Steps(i)]

\* The sampled values of a type: all zero, all ones, a small one and one
\* with a digit set in every limb.
Values(T) ==
    {Zero(T), MaxValue(T)}
        \cup {<<>> \o [i \in 1..T.n |-> IF i = T.n THEN 10 ELSE 0]}
        \cup {<<>> \o [i \in 1..T.n |-> (Base(T) \div Radix) + i]}

TraceParents ==
    [version : Values(U8), trace_id : Values(U128),
     parent_id : Values(U64), flags : {Zero(U8), MaxValue(U8)}]

\* TraceParent::new: version 0, flags 0, random ids.
new == {t \in TraceParents : t.version = Zero(U8) /\ t.flags = Zero(U8)}

Repeat(c, n) == [i \in 1..n |-> c]

\* Header values a peer may send that no TraceParent renders to.
RawInputs ==
    { <<>>,
      Repeat("0", TRACEPARENT_LEN),
      Repeat("-", TRACEPARENT_LEN),
      <<"0", "-", "1", "-", "2", "-", "3", "-">> \o Repeat("x", TRACEPARENT_LEN - 8),
      <<"+", "1", "-">> \o Repeat("0", 31) \o <<"f", "-">> \o Repeat("A", 16)
          \o <<"-", "0", "1">>,
      <<"0", "0", "-">> \o Repeat("f", 33) \o <<"-">> \o Repeat("0", 15)
          \o <<"-", "0", "1">> }

\* The bytes and the places an alteration of a header value uses.
EditChars == {"F", "g", "-", "+"}

EditPlaces == {1, 3, 4, 36, TRACEPARENT_LEN}

NotParsed == [tag |-> "none"]

TraceInit ==
    /\ tp \in TraceParents
    /\ \/ input = <<>> /\ origin = "none"
       \/ input \in RawInputs /\ origin = "raw" /\ tp.trace_id = Zero(U128)
              /\ tp.parent_id = Zero(U64) /\ tp \in new
    /\ edits = 0
    /\ parsed = NotParsed

\* The trace part before any value exists (the other specifications).
TraceIdle ==
    /\ tp = [version |-> Zero(U8), trace_id |-> Zero(U128),
             parent_id |-> Zero(U64), flags |-> Zero(U8)]
    /\ input = <<>>
    /\ origin = "none"
    /\ edits = 0
    /\ parsed = NotParsed

\* tp.header(): the value is rendered and sent.
Header ==
    /\ OutsideTrace
    /\ origin = "none"
    /\ input' = header(tp)
    /\ origin' = "header"
    /\ UNCHANGED <<tp, edits, parsed>>

\* The header value loses its last byte on the way.
Truncate ==
    /\ OutsideTrace
    /\ origin # "none" /\ parsed = NotParsed /\ edits < MaxEdits /\ input # <<>>
    /\ input' = SubSeq(input, 1, Len(input) - 1)
    /\ edits' = edits + 1
    /\ UNCHANGED <<tp, origin, parsed>>

\* The header value gains a byte on the way.
Extend ==
    /\ OutsideTrace
    /\ origin # "none" /\ parsed = NotParsed /\ edits < MaxEdits
    /\ \E c \in EditChars : input' = Append(input, c)
    /\ edits' = edits + 1
    /\ UNCHANGED <<tp, origin, parsed>>

\* A byte of the header value is replaced on the way.
Replace ==
    /\ OutsideTrace
    /\ origin # "none" /\ parsed = NotParsed /\ edits < MaxEdits
    /\ \E i \in EditPlaces, c \in EditChars :
          /\ i <= Len(input) /\ input[i] # c
          /\ input' = [input EXCEPT ![i] = c]
    /\ edits' = edits + 1
    /\ UNCHANGED <<tp, origin, parsed>>

\* TraceParent::try_from(input)
Parse ==
    /\ OutsideTrace
    /\ origin # "none" /\ parsed = NotParsed
    /\ parsed' = try_from(input)
    /\ UNCHANGED <<tp, input, origin, edits>>

TraceNext ==
    \/ Header
    \/ Truncate
    \/ Extend
    \/ Replace
    \/ Parse

----------------------------------------------------------------------------
(* maybe_set_transparent and freebind_connect                              *)

\* The values of Option<bool>.
OptionBool == {"Some(true)", "Some(false)", "None"}

\* A caller that always attempts the option and returns what came of it.
always_set_transparent(e, ok) ==
    [tag |-> "Ok", val |-> ok, attempted |-> TRUE]

\* maybe_set_transparent where socket::set_transparent(listener) succeeds
\* (ok) or fails when called: the result, and whether the call was made.
maybe_set_transparent(e, ok) ==
    CASE e = "Some(true)" ->
            IF ok THEN [tag |-> "Ok", val |-> TRUE, attempted |-> TRUE]
                  ELSE [tag |-> "Err", attempted |-> TRUE]
      [] e = "Some(false)" -> [tag |-> "Ok", val |-> FALSE, attempted |-> FALSE]
      [] e = "None" -> [tag |-> "Ok", val |-> ok, attempted |-> TRUE]

\* The call of maybe_set_transparent(pi, listener).
MaybeSetTransparent ==
    /\ OutsideSocket
    /\ mstResult = Pending
    /\ \E ok \in BOOLEAN :
          mstResult' = [tag |-> "returned", res |-> maybe_set_transparent(enable, ok),
                        would |-> ok]
    /\ UNCHANGED <<enable, local, addr, fbPc, fbLog, fbResult>>

\* IpAddr: an IPv4 address, or an IPv6 address that may be the IPv4-mapped
\* form (::ffff:a.b.c.d) of an IPv4 address.
IpAddrs ==
    [fam : {"v4"}, host : 1..MaxHost, mapped : {FALSE}]
        \cup [fam : {"v6"}, host : 1..MaxHost, mapped : BOOLEAN]

\* IpAddr::is_ipv4
is_ipv4(ip) == ip.fam = "v4"

\* The port of the destinations.
DestPort == 15008

\* SocketAddr::new(ip, port)
SocketAddr(ip, port) == [ip |-> ip, port |-> port]

\* socket::to_canonical: an IPv4-mapped IPv6 address becomes the IPv4 one.
to_canonical(sa) ==
    IF sa.ip.fam = "v6" /\ sa.ip.mapped
       THEN SocketAddr([fam |-> "v4", host |-> sa.ip.host, mapped |-> FALSE], sa.port)
       ELSE sa

None == [tag |-> "None"]

Some(x) == [tag |-> "Some", ip |-> x]

\* A match that knows no self-connect arm.
PlainOnlyWithoutSource(l, a) == l = None

\* The first two arms of `match local`: None, and
\* Some(src) if src == socket::to_canonical(addr).ip().
PlainConnect(l, a) == IF l = None THEN TRUE ELSE l.ip = to_canonical(a).ip

\* A socket call and whether it succeeded.
Call(op, ok) == [op |-> op, ok |-> ok]

\* socket.bind(to) and whether it succeeded.
BindCall(to, ok) == [op |-> "bind", ok |-> ok, to |-> to]

\* TcpStream::connect(addr).await? of the first two arms.
FbPlain ==
    /\ OutsideSocket
    /\ fbPc = "start" /\ PlainConnect(local, addr)
    /\ \E ok \in BOOLEAN :
          /\ fbLog' = Append(fbLog, Call("TcpStream::connect", ok))
          /\ fbResult' = IF ok THEN [tag |-> "Ok", via |-> "TcpStream::connect"]
                               ELSE [tag |-> "Err", op |-> "TcpStream::connect"]
    /\ fbPc' = "done"
    /\ UNCHANGED <<enable, mstResult, local, addr>>

\* TcpSocket::new_v4()? or TcpSocket::new_v6()?, by the family of src.
FbNewSocket ==
    /\ OutsideSocket
    /\ fbPc = "start" /\ ~PlainConnect(local, addr)
    /\ LET op == IF is_ipv4(local.ip) THEN "TcpSocket::new_v4" ELSE "TcpSocket::new_v6"
       IN  \E ok \in BOOLEAN :
              /\ fbLog' = Append(fbLog, Call(op, ok))
              /\ IF ok THEN fbPc' = "flags" /\ UNCHANGED fbResult
                       ELSE fbPc' = "done" /\ fbResult' = [tag |-> "Err", op |-> op]
    /\ UNCHANGED <<enable, mstResult, local, addr>>

\* A failure to set the flags is returned as the error.
FbSetFlagsAborts ==
    /\ OutsideSocket
    /\ fbPc = "flags"
    /\ \E ok \in BOOLEAN :
          /\ fbLog' = Append(fbLog, Call("set_freebind_and_transparent", ok))
          /\ IF ok THEN fbPc' = "bind" /\ UNCHANGED fbResult
                   ELSE fbPc' = "done"
                        /\ fbResult' = [tag |-> "Err", op |-> "set_freebind_and_transparent"]
    /\ UNCHANGED <<enable, mstResult, local, addr>>

\* The bind follows whether or not the flags were set.
FbSetFlagsThenBind ==
    /\ OutsideSocket
    /\ fbPc = "flags"
    /\ \E ok \in BOOLEAN :
          /\ fbLog' = Append(fbLog, Call("set_freebind_and_transparent", ok))
          /\ fbPc' = "bind"
    /\ UNCHANGED <<enable, mstResult, local, addr, fbResult>>

\* match socket::set_freebind_and_transparent(&socket): Err is logged and the
\* bind is skipped; otherwise the bind follows.
FbSetFlags ==
    /\ OutsideSocket
    /\ fbPc = "flags"
    /\ \E ok \in BOOLEAN :
          /\ fbLog' = Append(fbLog, Call("set_freebind_and_transparent", ok))
          /\ fbPc' = IF ok THEN "bind" ELSE "connect"
    /\ UNCHANGED <<enable, mstResult, local, addr, fbResult>>

\* if let Err(err) = socket.bind(local_addr): a failure is logged.
FbBind ==
    /\ OutsideSocket
    /\ fbPc = "bind"
    /\ \E ok \in BOOLEAN :
          fbLog' = Append(fbLog, BindCall(SocketAddr(local.ip, 0), ok))
    /\ fbPc' = "connect"
    /\ UNCHANGED <<enable, mstResult, local, addr, fbResult>>

\* Ok(socket.connect(addr).await?)
FbConnect ==
    /\ OutsideSocket
    /\ fbPc = "connect"
    /\ \E ok \in BOOLEAN :
          /\ fbLog' = Append(fbLog, Call("socket.connect", ok))
          /\ fbResult' = IF ok THEN [tag |-> "Ok", via |-> "socket.connect"]
                               ELSE [tag |-> "Err", op |-> "socket.connect"]
    /\ fbPc' = "done"
    /\ UNCHANGED <<enable, mstResult, local, addr>>

SocketInit ==
    /\ enable \in OptionBool
    /\ mstResult = Pending
    /\ local \in {None} \cup {Some(ip) : ip \in IpAddrs}
    /\ addr \in {SocketAddr(ip, DestPort) : ip \in IpAddrs}
    /\ fbPc = "start"
    /\ fbLog = <<>>
    /\ fbResult = Pending

\* No socket function has been called (the other specifications).
SocketIdle ==
    /\ enable = "None"
    /\ mstResult = Pending
    /\ local = None
    /\ addr = SocketAddr([fam |-> "v4", host |-> 1, mapped |-> FALSE], DestPort)
    /\ fbPc = "start"
    /\ fbLog = <<>>
    /\ fbResult = Pending

SocketNext ==
    \/ MaybeSetTransparent
    \/ FbPlain
    \/ FbNewSocket
    \/ FbSetFlags
    \/ FbBind
    \/ FbConnect

----------------------------------------------------------------------------
(* get_original_src_from_fwded                                             *)

\* The two addresses of tests::string_match.
V4Sample == "192.0.2.43"

V6Sample == "2001:db8:cafe::17"

FwdIps == {V4Sample, V6Sample}

\* The text of a value: an address alone, with a port, in brackets, in
\* brackets with a port, or a name that is no address ("unknown").  An IPv4
\* address takes its port unbracketed.
Unknown == [form |-> "name", ip |-> "unknown"]

Texts ==
    [form : {"ip", "[ip]", "[ip]:port"}, ip : FwdIps]
        \cup {[form |-> "ip:port", ip |-> V4Sample]}
        \cup {Unknown}

\* i.parse::<SocketAddr>(): "a.b.c.d:port" or "[v6]:port".
ParseSocketAddr(i) ==
    IF \/ i.form = "ip:port" /\ i.ip = V4Sample
       \/ i.form = "[ip]:port" /\ i.ip = V6Sample
       THEN Some(i.ip)
       ELSE None

\* i.parse::<IpAddr>(): a bare address.
ParseIpAddr(i) == IF i.form = "ip" THEN Some(i.ip) ELSE None

\* strip_prefix('[') and then strip_suffix(']'), or the text as it was.
StripBrackets(i) == IF i.form = "[ip]" THEN [i EXCEPT !.form = "ip"] ELSE i

parse_socket_or_ip(i) ==
    LET s == StripBrackets(i)
    IN  IF ParseSocketAddr(s) # None THEN ParseSocketAddr(s) ELSE ParseIpAddr(s)

\* One name=value pair of the header and the separator before it; a "junk"
\* pair is a bare word with no '='.
Seps == {",", ";"}

Pairs ==
    [sep : Seps, kind : {"for"}, quoted : BOOLEAN, text : Texts]
        \cup [sep : Seps, kind : {"proto", "junk"}, quoted : {FALSE}, text : {Unknown}]

\* The header values of n pairs (the separator of the first pair is unused).
HeadersOfLen(n) == {h \in [1..n -> Pairs] : n > 0 => h[1].sep = ";"}

Headers == UNION {HeadersOfLen(n) : n \in 0..MaxEntries}

\* The request: without a Forwarded header, with one that is not visible
\* ASCII, or with one that is text.
NoHeader == [tag |-> "absent", pairs |-> <<>>]

Opaque == [tag |-> "opaque", pairs |-> <<>>]

Text(h) == [tag |-> "text", pairs |-> h]

Requests == {NoHeader, Opaque} \cup {Text(h) : h \in Headers}

\* An unquoted value is a token: no ':', '[' or ']'.
IsToken(t) == t.form = "name" \/ (t.form = "ip" /\ t.ip = V4Sample)

ParseError == [tag |-> "Err", forwarded_for |-> <<>>]

\* http_types::proxies::Forwarded::parse: a list of for= values separated by
\* ',', and single pairs separated by ';'; a value is a token or a quoted
\* string; proto is given at most once.
RECURSIVE ParseFrom(_, _, _, _)
ParseFrom(h, i, seenProto, fors) ==
    IF i > Len(h) THEN [tag |-> "Ok", forwarded_for |-> fors]
    ELSE LET p == h[i]
             afterComma == i > 1 /\ p.sep = ","
         IN  IF p.kind = "for"
                THEN IF /\ afterComma => h[i - 1].kind = "for"
                        /\ p.quoted \/ IsToken(p.text)
                        THEN ParseFrom(h, i + 1, seenProto, Append(fors, p.text))
                        ELSE ParseError
                ELSE IF p.kind = "proto" /\ ~afterComma /\ ~seenProto
                        THEN ParseFrom(h, i + 1, TRUE, fors)
                        ELSE ParseError

ForwardedParse(h) == ParseFrom(h, 1, FALSE, <<>>)

\* A resolver that reads the first for= value.
first(fors) == fors[1]

\* .last() of a non-empty forwarded_for()
last(fors) == fors[Len(fors)]

get_original_src_from_fwded(req) ==
    IF req.tag # "text" THEN None
    ELSE LET ph == ForwardedParse(req.pairs)
         IN  IF ph.tag = "Err" \/ ph.forwarded_for = <<>> THEN None
             ELSE parse_socket_or_ip(last(ph.forwarded_for))

GetOriginalSrcFromFwded ==
    /\ OutsideFwd
    /\ fwdResult = Pending
    /\ fwdResult' = [tag |-> "returned", val |-> get_original_src_from_fwded(fwded)]
    /\ UNCHANGED fwded

\* The header and expectation of each case of tests::string_match.
For(sep, quoted, form, ip) ==
    [sep |-> sep, kind |-> "for", quoted |-> quoted, text |-> [form |-> form, ip |-> ip]]

Proto(sep) == [sep |-> sep, kind |-> "proto", quoted |-> FALSE, text |-> Unknown]

Junk(sep) == [sep |-> sep, kind |-> "junk", quoted |-> FALSE, text |-> Unknown]

TestCases ==
    { <<(<<>>), None>>,
      <<(<<Proto(";")>>), None>>,
      <<(<<Junk(";")>>), None>>,
      <<(<<For(";", FALSE, "ip", V4Sample)>>), Some(V4Sample)>>,
      <<(<<For(";", TRUE, "ip", V4Sample)>>), Some(V4Sample)>>,
      <<(<<For(";", TRUE, "ip:port", V4Sample)>>), Some(V4Sample)>>,
      <<(<<For(";", FALSE, "ip:port", V4Sample)>>), None>>,
      <<(<<For(";", TRUE, "[ip]", V6Sample)>>), Some(V6Sample)>>,
      <<(<<For(";", FALSE, "[ip]", V6Sample)>>), None>>,
      <<(<<For(";", TRUE, "[ip]:port", V6Sample)>>), Some(V6Sample)>>,
      <<(<<For(";", FALSE, "ip", V4Sample), Proto(";")>>), Some(V4Sample)>>,
      <<(<<For(";", FALSE, "ip", V4Sample), For(",", TRUE, "[ip]", V6Sample),
           Proto(";")>>), Some(V6Sample)>>,
      <<(<<For(";", FALSE, "ip", V4Sample), For(",", TRUE, "[ip]", V6Sample),
           [sep |-> ",", kind |-> "for", quoted |-> FALSE, text |-> Unknown],
           Proto(";")>>), None>> }

string_match ==
    \A c \in TestCases : get_original_src_from_fwded(Text(c[1])) = c[2]

FwdInit ==
    /\ fwded \in Requests
    /\ fwdResult = Pending

FwdIdle ==
    /\ fwded = NoHeader
    /\ fwdResult = Pending

FwdNext == GetOriginalSrcFromFwded

----------------------------------------------------------------------------
(* Specifications                                                          *)

\* copy_hbone on its own.
InitRelay == RelayInit /\ ProxyInit /\ TraceIdle /\ SocketIdle /\ FwdIdle

SpecRelay == InitRelay /\ [][RelayNext]_vars

\* A step of direction d that is no failure.
Progress(d) ==
    \/ Read(d)
    \/ ReadEof(d)
    \/ Write(d)
    \/ IdleFlush(d)
    \/ FinishCopy(d)
    \/ Shutdown(d)

\* copy_hbone on a runtime that polls each of the two futures of try_join!
\* again whenever its I/O can go on.
FairSpecRelay == SpecRelay /\ \A d \in Dirs : WF_vars(Progress(d))

\* Proxy on its own.
InitProxy == RelayIdle /\ ProxyInit /\ TraceIdle /\ SocketIdle /\ FwdIdle

SpecProxy == InitProxy /\ [][ProxyNext]_vars

\* TraceParent on its own.
InitTrace == RelayIdle /\ ProxyInit /\ TraceInit /\ SocketIdle /\ FwdIdle

SpecTrace == InitTrace /\ [][TraceNext]_vars

\* maybe_set_transparent and freebind_connect on their own.
InitSocket == RelayIdle /\ ProxyInit /\ TraceIdle /\ SocketInit /\ FwdIdle

SpecSocket == InitSocket /\ [][SocketNext]_vars

\* get_original_src_from_fwded on its own.
InitFwd == RelayIdle /\ ProxyInit /\ TraceIdle /\ SocketIdle /\ FwdInit

SpecFwd == InitFwd /\ [][FwdNext]_vars

----------------------------------------------------------------------------
(* Claims about copy_hbone                                                 *)

\* C1: when copy_hbone returns Ok((sent, received)), with A the length of the
\* stream tunnel -> TCP and B the length of the stream TCP -> tunnel, sent = B
\* and received = A, and every byte of either stream is on its sink.
C1_ByteCounts ==
    result.tag = "Ok" =>
        /\ sent = total["server_to_client"]
        /\ received = total["client_to_server"]
        /\ result.fst = total["server_to_client"]
        /\ result.snd = total["client_to_server"]
        /\ \A d \in Dirs : sink[d] = total[d]

\* A successful relay of two streams of different lengths, one of them longer
\* than the buffers.
C1_Witness ==
    /\ result.tag = "Ok"
    /\ total["client_to_server"] > HBONE_BUFFER_SIZE
    /\ total["server_to_client"] = 1

\* C2, as stated: the first element of the returned pair counts the bytes
\* copied tunnel -> TCP and the second those copied TCP -> tunnel.
C2_AsClaimed ==
    result.tag = "Ok" =>
        /\ result.fst = amt["client_to_server"]
        /\ result.snd = amt["server_to_client"]

\* C2, amended: the first element of the returned pair counts the bytes copied
\* TCP -> tunnel (server_to_client) and the second those copied tunnel -> TCP
\* (client_to_server).
C2_PairOrder ==
    result.tag = "Ok" =>
        /\ result.fst = amt["server_to_client"]
        /\ result.snd = amt["client_to_server"]

\* A successful relay that copied more bytes tunnel -> TCP than TCP -> tunnel.
C2_Witness ==
    /\ result.tag = "Ok"
    /\ amt["client_to_server"] > amt["server_to_client"]
    /\ amt["server_to_client"] > 0

\* C3: once an I/O operation has failed in a direction, copy_hbone has
\* returned that error and no count pair, also when the other direction was
\* complete by then.
C3_FailFast ==
    \A d \in Dirs :
        failedOp[d] # "none" =>
            /\ result = ErrResult(d, failedOp[d])
            /\ pc[d] = "failed"

\* A shutdown fails in one direction after the other direction has copied its
\* bytes and shut its write half down.
C3_Witness ==
    \E d \in Dirs :
        /\ failedOp[d] = "shutdown"
        /\ pc[Other(d)] = "done" /\ wclosed[Other(d)]
        /\ sink[Other(d)] = total[Other(d)] /\ total[Other(d)] > 0

\* C4: a write half is shut down only once its direction's read half has
\* returned end-of-stream and every byte read is on the sink, and a direction
\* is complete only with its write half shut down.
C4_ShutdownAfterEof ==
    \A d \in Dirs :
        /\ wclosed[d] =>
              /\ reof[d] /\ src[d] = 0
              /\ rbuf[d] = 0 /\ wbuf[d] = 0
              /\ sink[d] = total[d]
        /\ pc[d] = "done" => wclosed[d]

\* One direction has shut its write half down after copying a stream longer
\* than the buffers while the other direction is still copying.
C4_Witness ==
    \E d \in Dirs :
        /\ wclosed[d] /\ total[d] > HBONE_BUFFER_SIZE
        /\ pc[Other(d)] = "copy" /\ src[Other(d)] > 0

----------------------------------------------------------------------------
(* Claims about Proxy                                                      *)

\* C5: the inbound listener is bound before any other, and InboundPassthrough,
\* Outbound and Socks5 are constructed with hbone_port equal to the port the
\* inbound listener is bound to, the port addresses().inbound reports.
C5_HbonePortIsInboundPort ==
    /\ bindOrder # <<>> => bindOrder[1] = "inbound"
    /\ \A r \in Roles \ {"inbound"} :
          role[r].state # "unbuilt" =>
              /\ role["inbound"].state # "unbuilt"
              /\ role["inbound"].port \in Ports("inbound")
              /\ role[r].inputs.hbone_port = role["inbound"].port
              /\ role[r].inputs.hbone_port = Addresses.inbound

\* Proxy::new has returned a Proxy whose inbound listener is bound to the last
\* of its ports.
C5_Witness ==
    /\ newResult.tag = "Ok"
    /\ Addresses.inbound = MaxPort
    /\ \A r \in Roles \ {"inbound"} : role[r].inputs.hbone_port = MaxPort

\* C6: when the bind of a role fails, Proxy::new returns that error and no
\* Proxy, no role later in the sequence is bound, and no role is running or
\* holds its listening socket.
C6_BindFailureAborts ==
    \A r \in Roles :
        (newResult.tag = "Err" /\ newResult.at = r) =>
            /\ newResult.error = "Bind"
            /\ listening = {}
            /\ runPc = "idle"
            /\ \A q \in Roles :
                  /\ role[q].state \in {"unbuilt", "dropped"}
                  /\ Index(q) >= Index(r) => role[q].state = "unbuilt"
                  /\ Index(q) < Index(r) => role[q].state = "dropped"

\* The bind of the last role fails after the three others were bound.
C6_Witness ==
    /\ newResult.tag = "Err" /\ newResult.at = "socks5"
    /\ Len(bindOrder) = 3

\* C7: run spawns the four tasks and returns only when all four have
\* finished; a task that ends in an error or a panic changes no other task
\* and does not make run return.
C7_RunJoinsAll ==
    /\ [](runPc = "returned" => \A r \in Roles : Finished(r))
    /\ [](runPc = "joining" =>
             \A r \in Roles : role[r].state = "running" \/ Finished(r))
    /\ [][\A r \in Roles :
             (role[r].state = "running" /\ role'[r].state \in {"errored", "panicked"})
                => /\ \A q \in Roles \ {r} : role'[q] = role[q]
                   /\ runPc' = runPc]_vars

\* run has returned after one task panicked, one ended in an error and the
\* two others left on the drain signal.
C7_Witness ==
    /\ runPc = "returned"
    /\ role["inbound_passthrough"].state = "panicked"
    /\ role["outbound"].state = "errored"
    /\ role["inbound"].state = "exited"
    /\ role["socks5"].state = "exited"

\* C8, as stated: every listener role holds the shared drain signal, so that
\* once it has fired no running role is left without the means to see it.
C8_EveryRoleHoldsDrain ==
    \A r \in Roles : role[r].state # "unbuilt" => role[r].drain

----------------------------------------------------------------------------
(* Claims about TraceParent                                                *)

\* C9: the header value of every TraceParent is 55 bytes long, and parsing
\* it gives a TraceParent equal to the rendered one in all four fields.
C9_RoundTrip ==
    /\ Len(header(tp)) = TRACEPARENT_LEN
    /\ (origin = "header" /\ edits = 0 /\ parsed # NotParsed) =>
          /\ parsed.tag = "Ok"
          /\ parsed.val.version = tp.version
          /\ parsed.val.trace_id = tp.trace_id
          /\ parsed.val.parent_id = tp.parent_id
          /\ parsed.val.flags = tp.flags

\* The header value of a TraceParent with an all-zero trace id, an all-ones
\* parent id and all-ones flags has been parsed.
C9_Witness ==
    /\ origin = "header" /\ edits = 0 /\ parsed # NotParsed
    /\ tp.trace_id = Zero(U128)
    /\ tp.parent_id = MaxValue(U64)
    /\ tp.flags = MaxValue(U8)

\* C10: try_from of a value whose length is not 55 returns the length error,
\* having neither split the value nor decoded a field.
C10_LengthCheckedFirst ==
    (parsed # NotParsed /\ Len(input) # TRACEPARENT_LEN) =>
        parsed = [tag |-> "Err", kind |-> "length", steps |-> <<"len">>]

\* A value of 56 bytes whose four pieces would all decode has been parsed.
C10_Witness ==
    /\ parsed # NotParsed
    /\ Len(input) = TRACEPARENT_LEN + 1
    /\ Len(Split(input)) = Len(Fields)
    /\ \A i \in 1..Len(Fields) :
          FromStrRadix(Split(input)[i], FieldType[i]).tag = "Ok"

\* A byte is a hex digit of either case.
IsHexDigit(c) == ToDigit(c) >= 0

\* C11, as stated: try_from succeeds only for a value that splits on '-' into
\* exactly four pieces of 2, 32, 16 and 2 bytes, all of them hex digits.
C11_StrictFormat ==
    parsed # NotParsed /\ parsed.tag = "Ok" =>
        LET segs == Split(input)
        IN  /\ Len(segs) = Len(Fields)
            /\ \A i \in 1..Len(segs) :
                  /\ Len(segs[i]) = (FieldType[i].n * FieldType[i].bits) \div 4
                  /\ \A j \in 1..Len(segs[i]) : IsHexDigit(segs[i][j])

\* C12, as stated: try_from returns a value or an error for every input and
\* never panics.
C12_NeverPanics ==
    parsed # NotParsed => parsed.tag \in {"Ok", "Err"}

----------------------------------------------------------------------------
(* Claims about maybe_set_transparent and freebind_connect                 *)

\* C13: with Some(true) maybe_set_transparent attempts the socket option and
\* returns an error when the attempt fails and true when it succeeds; with
\* Some(false) it returns false without the attempt; with None it attempts
\* and returns Ok(true) on success and Ok(false) on failure.
C13_ThreeWayPolicy ==
    mstResult # Pending =>
        LET r == mstResult.res
            ok == mstResult.would
        IN  /\ enable = "Some(true)" =>
                  /\ r.attempted
                  /\ r.tag = (IF ok THEN "Ok" ELSE "Err")
                  /\ ok => r.val = TRUE
            /\ enable = "Some(false)" =>
                  ~r.attempted /\ r.tag = "Ok" /\ r.val = FALSE
            /\ enable = "None" =>
                  r.attempted /\ r.tag = "Ok" /\ r.val = ok

\* With None the attempt has failed and maybe_set_transparent has returned.
C13_Witness ==
    /\ mstResult # Pending
    /\ enable = "None"
    /\ ~mstResult.would

\* The names of the calls of a log, in order.
Ops(log) == <<>> \o [i \in 1..Len(log) |-> log[i].op]

IsPrefix(a, b) == Len(a) <= Len(b) /\ SubSeq(b, 1, Len(a)) = a

\* C14: with no source, or a source equal to the canonicalized destination
\* IP, freebind_connect only makes an ordinary connect (no socket allocation,
\* no flags, no bind); in every other case it starts on the source path.
C14_PlainConnectCases ==
    fbLog # <<>> =>
        IF local = None THEN Ops(fbLog) = <<"TcpStream::connect">>
        ELSE IF local.ip = to_canonical(addr).ip
                THEN Ops(fbLog) = <<"TcpStream::connect">>
                ELSE /\ fbLog[1].op \in {"TcpSocket::new_v4", "TcpSocket::new_v6"}
                     /\ \A i \in 1..Len(fbLog) : fbLog[i].op # "TcpStream::connect"

\* The source is the IPv4 address whose IPv4-mapped IPv6 form is the
\* destination, and the ordinary connect has been made.
C14_Witness ==
    /\ fbPc = "done"
    /\ local # None /\ is_ipv4(local.ip)
    /\ addr.ip.fam = "v6" /\ addr.ip.mapped /\ addr.ip.host = local.ip.host
    /\ Ops(fbLog) = <<"TcpStream::connect">>

\* A call to set the flags or to bind has failed.
FlagsOrBindFailed ==
    \E i \in 1..Len(fbLog) :
        fbLog[i].op \in {"set_freebind_and_transparent", "bind"} /\ ~fbLog[i].ok

\* C15: on the source path, after a failure to set the flags or to bind, the
\* connect to the destination is still made and its outcome is what
\* freebind_connect returns.
C15_FailuresDoNotAbort ==
    FlagsOrBindFailed =>
        IF fbPc = "done"
           THEN LET lastCall == fbLog[Len(fbLog)]
                IN  /\ lastCall.op = "socket.connect"
                    /\ fbResult.tag = (IF lastCall.ok THEN "Ok" ELSE "Err")
           ELSE fbPc = "connect" /\ fbResult = Pending

\* The bind has failed and freebind_connect has returned the connected stream.
C15_Witness ==
    /\ fbPc = "done" /\ fbResult.tag = "Ok"
    /\ \E i \in 1..Len(fbLog) : fbLog[i].op = "bind" /\ ~fbLog[i].ok

\* TcpSocket::new_v4 for an IPv4 source, TcpSocket::new_v6 otherwise.
NewFor(ip) == IF ip.fam = "v4" THEN "TcpSocket::new_v4" ELSE "TcpSocket::new_v6"

\* C19, as stated: on the source path the calls are: allocate a socket of the
\* source's family, set the flags, bind, connect, the bind being attempted
\* whether or not the flags were set.
C19_BindAlwaysAttempted ==
    (fbLog # <<>> /\ fbLog[1].op # "TcpStream::connect") =>
        /\ IsPrefix(Ops(fbLog),
                    <<NewFor(local.ip), "set_freebind_and_transparent", "bind",
                      "socket.connect">>)
        /\ (fbPc = "done" /\ fbLog[1].ok) => Len(fbLog) = 4

\* C19, amended: on the source path the calls are: allocate a socket of the
\* source's family, set the flags, bind to (source, port 0) if and only if
\* the flags were set, connect.
C19_BindOnlyWithFlags ==
    (fbLog # <<>> /\ fbLog[1].op # "TcpStream::connect") =>
        LET flagsFailed == Len(fbLog) >= 2 /\ ~fbLog[2].ok
        IN  /\ IsPrefix(Ops(fbLog),
                        IF flagsFailed
                           THEN <<NewFor(local.ip), "set_freebind_and_transparent",
                                  "socket.connect">>
                           ELSE <<NewFor(local.ip), "set_freebind_and_transparent",
                                  "bind", "socket.connect">>)
            /\ (fbPc = "done" /\ fbLog[1].ok) =>
                  Len(fbLog) = (IF flagsFailed THEN 3 ELSE 4)
            /\ \A i \in 1..Len(fbLog) :
                  fbLog[i].op = "bind" => fbLog[i].to = SocketAddr(local.ip, 0)

\* freebind_connect has returned after setting the flags failed, with an
\* IPv6 source.
C19_Witness ==
    /\ fbPc = "done"
    /\ Ops(fbLog) = <<"TcpSocket::new_v6", "set_freebind_and_transparent",
                      "socket.connect">>
    /\ ~fbLog[2].ok


----------------------------------------------------------------------------
(* Claims about get_original_src_from_fwded                                *)

\* The for= pairs of a header, in order.
ForEntries(h) == SelectSeq(<<>> \o h, LAMBDA p : p.kind = "for")

\* The header follows the grammar: no bare word, every unquoted for= value a
\* token, ',' only between two for= pairs, proto at most once.
WellFormed(h) ==
    /\ \A i \in 1..Len(h) :
          /\ h[i].kind # "junk"
          /\ h[i].kind = "for" => (h[i].quoted \/ IsToken(h[i].text))
          /\ (i > 1 /\ h[i].sep = ",") => (h[i].kind = "for" /\ h[i - 1].kind = "for")
    /\ \A i, j \in 1..Len(h) : (h[i].kind = "proto" /\ h[j].kind = "proto") => i = j

\* The text is an address: alone, with its port, or in brackets.
IsAddress(t) ==
    /\ t.form # "name"
    /\ t.form = "[ip]:port" => t.ip = V6Sample

----------------------------------------------------------------------------
(* Claims about the completion of copy_hbone                               *)

\* No I/O operation has failed.
NoFailure == \A d \in Dirs : failedOp[d] = "none"

\* C17: copy_hbone returns Ok only when both directions have read
\* end-of-stream and shut their write sides down; while no I/O fails and a
\* peer never closes its stream it does not return; and when both peers close
\* and no I/O fails it eventually returns the pair of counts.
C17_ReturnsWhenBothDone ==
    /\ [](result.tag = "Ok" =>
             \A d \in Dirs : reof[d] /\ wclosed[d] /\ pc[d] = "done")
    /\ []((NoFailure /\ \E d \in Dirs : ~closes[d]) => result = Pending)
    /\ (\A d \in Dirs : closes[d]) =>
          <>(\/ ~NoFailure
             \/ result = OkResult(total["server_to_client"], total["client_to_server"]))

\* One direction is complete, the peer of the other never closes and sends
\* nothing more, and copy_hbone has not returned.
C17_Witness ==
    \E d \in Dirs :
        /\ pc[d] = "done" /\ wclosed[d] /\ total[d] > 0
        /\ ~closes[Other(d)] /\ src[Other(d)] = 0 /\ rbuf[Other(d)] = 0
        /\ wbuf[Other(d)] = 0
        /\ result = Pending


\* C18: when an I/O operation of one direction fails, copy_hbone returns that
\* failure at once, and from then on the other direction reads nothing,
\* writes nothing and does not shut its write side down.
C18_NoProgressAfterFailure ==
    /\ [](\A d \in Dirs :
             failedOp[d] # "none" => result = ErrResult(d, failedOp[d]))
    /\ [][result.tag = "Err" =>
             /\ src' = src /\ rbuf' = rbuf /\ wbuf' = wbuf /\ sink' = sink
             /\ amt' = amt /\ reof' = reof /\ wclosed' = wclosed
             /\ pc' = pc /\ result' = result]_vars

\* copy_hbone has returned the failure of one direction while the other
\* still had bytes to read and bytes held by its writer.
C18_Witness ==
    /\ result.tag = "Err"
    /\ LET o == Other(result.dir)
       IN  /\ pc[o] = "dropped"
           /\ src[o] > 0 /\ wbuf[o] > 0
           /\ ~wclosed[o]


----------------------------------------------------------------------------
(* Claims about the tunnel port of ProxyInputs                             *)

\* C20, as stated: the copy of ProxyInputs of every constructed role, the
\* inbound role's own included, holds the port the inbound listener is bound
\* to.
C20_EveryCopyHoldsPort ==
    \A r \in Roles :
        role[r].state # "unbuilt" =>
            role[r].inputs.hbone_port = role["inbound"].port

\* C20, amended: hbone_port of pi is written once, with the port the inbound
\* listener is bound to, after Inbound::new and before any other role is
\* constructed, and no copy changes afterwards; the copies of the three later
\* roles hold that port, and the inbound role's own copy, taken before the
\* write, holds the initial 0.
C20_WrittenOnceAfterInbound ==
    /\ [][pi' # pi =>
             /\ pi.hbone_port = 0
             /\ \A r \in Roles : role[r].state = "unbuilt"
             /\ role'["inbound"].state = "built"
             /\ \A r \in Roles \ {"inbound"} : role'[r].state = "unbuilt"
             /\ pi'.hbone_port = role'["inbound"].port]_vars
    /\ [][\A r \in Roles :
             role[r].state # "unbuilt" => role'[r].inputs = role[r].inputs]_vars
    /\ [](\A r \in Roles \ {"inbound"} :
             role[r].state # "unbuilt" =>
                 /\ role[r].inputs.hbone_port = role["inbound"].port
                 /\ role[r].inputs.hbone_port = pi.hbone_port
                 /\ role[r].inputs.hbone_port # 0)
    /\ [](role["inbound"].state # "unbuilt" =>
             role["inbound"].inputs.hbone_port = 0)

\* Proxy::new has returned a Proxy: the inbound role's copy holds 0 and the
\* copy of Socks5 holds the port of the inbound listener.
C20_Witness ==
    /\ newResult.tag = "Ok"
    /\ role["inbound"].inputs.hbone_port = 0
    /\ role["socks5"].inputs.hbone_port = role["inbound"].port
    /\ role["inbound"].port = MaxPort

=============================================================================
